---- MODULE Spec2Model ----
(***************************************************************************)
(* Model of the partnur-backend profile pipeline: the POST /chat and POST   *)
(* /chat/enhanced handlers, the GET /analytics handler, ProfileManager     *)
(* (getUserProfile, createUserProfile, updateProfile,                      *)
(* calculateProfileCompletion, logConversation, getAnalytics,              *)
(* getUserActivitySummary) and the outcomes of the AIService calls, over a *)
(* storage table user_profiles and an append-only table conversation_logs. *)
(*                                                                         *)
(* JavaScript values are records [k, v]: k is the type ("null", "undef",   *)
(* "str", "num", "arr", "nan") and v the content as a sequence of codes:   *)
(* the characters of a string (<<>> is ''), the number, the array's        *)
(* elements. JavaScript objects (an extraction result, updateData) are     *)
(* functions whose DOMAIN is the object's key set.                         *)
(*                                                                         *)
(* The repository holds two AIService classes (src/aiService.js and the    *)
(* one with generateEnhancedResponse); the variable aiService says which   *)
(* of them the server has loaded, and every behaviour keeps its choice.    *)
(*                                                                         *)
(* Specifications:                                                         *)
(*   Spec            /chat requests overlap, collaborator calls may fail   *)
(*   SpecReliable    /chat requests overlap, no collaborator call fails    *)
(*   SpecSeq         /chat, one request at a time, calls may fail          *)
(*   SpecRoutes      /chat and /chat/enhanced, one request at a time,      *)
(*                   calls may fail; SpecRoutesFair adds that every call   *)
(*                   returns or fails in the end                           *)
(*   SpecStall       SpecRoutes where a call may also never settle;        *)
(*                   SpecStallFair adds that a handler that can take a     *)
(*                   step takes it                                         *)
(*   SpecAnalytics   GET /analytics on drawn tables, calls may fail        *)
(*   SpecScore       calculateProfileCompletion on arbitrary profiles      *)
(***************************************************************************)
EXTENDS Integers, Sequences, FiniteSets, TLC

\* Bounds of the model.
MaxRequests == 2   \* requests served one after the other (SpecSeq)
MaxInFlight == 2   \* requests that overlap (Spec, SpecReliable)
MaxFaults == 1     \* collaborator calls that fail in one behaviour
MaxChats == 1      \* requests served one after the other (SpecRoutes, SpecAnalytics)
MaxLogs == 2       \* rows of conversation_logs the analytics are computed on (SpecAnalytics)

VARIABLES
    user_profiles,      \* the user_profiles table: a sequence of rows, user_id = index
    conversation_logs,  \* the conversation_logs table: a sequence of entries
    clock,              \* the wall clock read by new Date()
    served,             \* number of requests received so far
    req,                \* per handler invocation: its position and its local variables
    faults,             \* number of collaborator calls that have failed so far
    proposedElems,      \* history: per user_id and array field, the elements written by completed merges
    aiService           \* which AIService class require('./aiService') has loaded

vars == <<user_profiles, conversation_logs, clock, served, req, faults, proposedElems,
          aiService>>

\* The two AIService classes of the repository: "basic" is src/aiService.js (no
\* generateEnhancedResponse, getRelevantContext returns an object), "enhanced" the class
\* with the smart features (getRelevantContext returns a string). A server runs one.
AIServices == {"basic", "enhanced"}

----------------------------------------------------------------------------
\* JavaScript values

Null == [k |-> "null", v |-> <<>>]
Undefined == [k |-> "undef", v |-> <<>>]
Str(s) == [k |-> "str", v |-> s]
Num(n) == [k |-> "num", v |-> <<n>>]
Arr(s) == [k |-> "arr", v |-> s]
NaN == [k |-> "nan", v |-> <<>>]

\* if (value): null, undefined, NaN, '' and 0 are falsy; every array is truthy.
Truthy(value) ==
    CASE value.k \in {"null", "undef", "nan"} -> FALSE
      [] value.k = "str" -> value.v # <<>>
      [] value.k = "num" -> value.v # <<0>>
      [] OTHER -> TRUE

IsArray(value) == value.k = "arr"

Range(s) == {s[i] : i \in 1..Len(s)}

\* The elements of a stored sequence attribute, as a set (none when it is not an array).
Elems(value) == IF IsArray(value) THEN Range(value.v) ELSE {}

\* [...new Set(s)]: the first occurrence of every element, in order.
RECURSIVE SetSpread(_, _)
SetSpread(s, seen) ==
    IF s = <<>> THEN <<>>
    ELSE IF Head(s) \in seen THEN SetSpread(Tail(s), seen)
    ELSE <<Head(s)>> \o SetSpread(Tail(s), seen \cup {Head(s)})

----------------------------------------------------------------------------
\* The columns of user_profiles and the field lists of the code

\* arrayFields of updateProfile, in the order the loop visits them.
arrayFields ==
    <<"peak_hours", "peak_days", "top_products", "staff_roles", "payment_methods",
      "ad_channels", "platforms_used", "goals", "challenges">>

\* The ten sequence attributes of the profile (the extraction prompt's array fields).
SequenceAttributes == Range(arrayFields) \cup {"past_campaigns"}

ScalarAttributes ==
    {"business_type", "location_city", "location_state", "monthly_revenue",
     "staff_count", "supplier_name", "inventory_source", "pricing_model"}

\* The fields the extraction prompt offers: the recognized profile fields.
RecognizedFields == SequenceAttributes \cup ScalarAttributes

SystemColumns ==
    {"user_id", "mobile_number", "language_pref", "profile_completion_score",
     "created_at", "updated_at", "last_profile_update"}

\* Keys an extraction result can carry that the prompt does not offer.
UnrecognizedKeys == {"favorite_color", "0"}

Columns == RecognizedFields \cup SystemColumns \cup UnrecognizedKeys

----------------------------------------------------------------------------
\* calculateProfileCompletion

\* The weight table `fields`, in the order of Object.entries.
fieldNames ==
    <<"mobile_number", "business_type", "location_city", "location_state",
      "monthly_revenue", "peak_hours", "peak_days", "top_products", "staff_count",
      "inventory_source", "payment_methods", "ad_channels", "platforms_used",
      "past_campaigns", "goals", "challenges">>

fields ==
    [mobile_number |-> 5, business_type |-> 10, location_city |-> 8, location_state |-> 7,
     monthly_revenue |-> 8, peak_hours |-> 5, peak_days |-> 5, top_products |-> 7,
     staff_count |-> 5, inventory_source |-> 5,
     payment_methods |-> 5, ad_channels |-> 5, platforms_used |-> 5, past_campaigns |-> 5,
     goals |-> 8, challenges |-> 7]

\* Mutant of IsFilled: the empty-array test is left out.
IsFilledWithoutArrayTest(value) ==
    /\ value.k # "null"
    /\ value.k # "undef"
    /\ ~(value.k = "str" /\ value.v = <<>>)

\* value !== null && value !== undefined && value !== '' && !(Array.isArray(value) && value.length === 0)
IsFilled(value) ==
    /\ value.k # "null"
    /\ value.k # "undef"
    /\ ~(value.k = "str" /\ value.v = <<>>)
    /\ ~(IsArray(value) /\ Len(value.v) = 0)

\* Object.values(fields).reduce((sum, points) => sum + points, 0)
RECURSIVE totalPointsFrom(_)
totalPointsFrom(i) ==
    IF i > Len(fieldNames) THEN 0 ELSE fields[fieldNames[i]] + totalPointsFrom(i + 1)

totalPoints == totalPointsFrom(1)

\* The loop over Object.entries(fields) that adds up completedPoints.
RECURSIVE completedPointsFrom(_, _)
completedPointsFrom(profile, i) ==
    IF i > Len(fieldNames) THEN 0
    ELSE (IF IsFilled(profile[fieldNames[i]]) THEN fields[fieldNames[i]] ELSE 0)
         + completedPointsFrom(profile, i + 1)

\* Math.round((n / d) * 100) for integers n >= 0, d > 0: halves round up.
MathRoundPercent(n, d) == (200 * n + d) \div (2 * d)

calculateProfileCompletion(profile) ==
    MathRoundPercent(completedPointsFrom(profile, 1), totalPoints)

----------------------------------------------------------------------------
\* JavaScript objects

EmptyObject == [key \in {} |-> Null]

\* A primitive or an array in the encoding [k, v], as opposed to an object.
IsValue(x) == DOMAIN x = {"k", "v"}

\* The property names of the indices of an array or a string.
IndexKeys == <<"0", "1", "2">>

\* Object.keys(obj): the keys of an object, the indices of an array or a string,
\* nothing for a number.
Keys(obj) ==
    IF ~IsValue(obj) THEN DOMAIN obj
    ELSE IF obj.k \in {"arr", "str"} THEN {IndexKeys[i] : i \in 1..Len(obj.v)}
    ELSE {}

\* obj[key], undefined when the key is absent; an element of an array or a character
\* of a string is the one-character string of its code.
Get(obj, key) ==
    IF key \notin Keys(obj) THEN Undefined
    ELSE IF ~IsValue(obj) THEN obj[key]
    ELSE Str(<<obj.v[CHOOSE i \in 1..Len(obj.v) : IndexKeys[i] = key]>>)

\* {...obj}: a new object with the own enumerable properties of obj.
Spread(obj) == [key \in Keys(obj) |-> Get(obj, key)]

\* obj[key] = value
Put(obj, key, value) ==
    [c \in DOMAIN obj \cup {key} |-> IF c = key THEN value ELSE obj[c]]

----------------------------------------------------------------------------
\* Inputs: what a request carries and what the text-generation collaborator returns

\* mobile_number of a request: a phone number, or missing, or the empty string.
MobileInputs == {Str(<<9>>), Undefined, Str(<<>>)}

\* message of a request: a text, or missing.
MessageInputs == {Str(<<1>>), Undefined}

\* The objects JSON.parse can hand to the handler as extractedInfo. String codes:
\* business_type 1 = "salon"; location_city 11 = "Kanpur"; inventory_source and
\* platforms_used 1 = "Meesho"; goals, challenges, past_campaigns: 1 = "a", 2 = "b", 3 = "c".
\* mobile_number <<8>> is a number other than the request's <<9>>.
Extractions ==
    { [business_type |-> Str(<<1>>), location_city |-> Str(<<11>>)],
      [goals |-> Arr(<<1, 1, 2>>)],
      [goals |-> Arr(<<2, 3>>), challenges |-> Arr(<<1>>)],
      [past_campaigns |-> Arr(<<1>>)],
      [past_campaigns |-> Arr(<<2, 2>>)],
      [business_type |-> Str(<<>>)],
      [monthly_revenue |-> Num(80000), favorite_color |-> Str(<<1>>)],
      [mobile_number |-> Str(<<8>>)] }

\* The JSON values the extraction call can answer with: an object (with or without
\* keys), null, the array ["a"].
JsonValues == Extractions \cup {EmptyObject, Null, Arr(<<1>>)}

\* What the extraction call gives back: its answer parses as JSON (ok), or the call
\* throws, or its answer is text that JSON.parse rejects.
ExtractionReplies(ok) ==
    IF ok THEN {[kind |-> "json", value |-> x] : x \in JsonValues}
    ELSE {[kind |-> "throws", value |-> Null], [kind |-> "text", value |-> Null]}

\* Mutant of extractProfileInfo: the catch block hands the failure on as an object
\* that describes the error.
extractProfileInfoReportingError(reply) ==
    IF reply.kind # "json" THEN [error |-> Str(<<5>>)]
    ELSE IF IsValue(reply.value) /\ ~Truthy(reply.value) THEN EmptyObject
    ELSE reply.value

\* extractProfileInfo: JSON.parse of the answer, `extracted || {}`, and the empty
\* object from the catch block when the call or JSON.parse threw.
extractProfileInfo(reply) ==
    IF reply.kind # "json" THEN EmptyObject
    ELSE IF IsValue(reply.value) /\ ~Truthy(reply.value) THEN EmptyObject
    ELSE reply.value

\* The chat routes of the server.
Routes == {"chat", "enhanced"}

----------------------------------------------------------------------------
\* Rows of user_profiles

\* The row createUserProfile inserts: the three columns it names, the generated
\* user_id and created_at, and null in every other column.
NewRow(id, mobile_number, now) ==
    [c \in Columns |->
        CASE c = "user_id" -> Num(id)
          [] c = "mobile_number" -> mobile_number
          [] c = "language_pref" -> Str(<<1>>)
          [] c = "profile_completion_score" -> Num(5)
          [] c = "created_at" -> Num(now)
          [] c \in UnrecognizedKeys -> Undefined
          [] OTHER -> Null]

\* .eq('mobile_number', m): the user_ids of the rows of that mobile number.
RowsOf(m) == {i \in 1..Len(user_profiles) : user_profiles[i]["mobile_number"] = m}

\* The user_id a handler's userProfile names.
UserIdOf(profile) == profile["user_id"].v[1]

\* Mutant of ApplyUpdate: the row's profile fields are replaced by updateData, a field
\* it does not name becomes null.
ApplyUpdateReplacing(row, updateData) ==
    [c \in DOMAIN row |->
        IF c \in Keys(updateData) THEN updateData[c]
        ELSE IF c \in RecognizedFields THEN Null
        ELSE row[c]]

\* .update(updateData): the row with the keys of updateData written, the others kept.
ApplyUpdate(row, updateData) ==
    [c \in DOMAIN row |-> IF c \in Keys(updateData) THEN updateData[c] ELSE row[c]]

----------------------------------------------------------------------------
\* updateProfile: the pieces between its awaits

\* The elements of s that occur in it exactly once.
OccurringOnce(s) ==
    SelectSeq(s, LAMBDA x : Cardinality({i \in 1..Len(s) : s[i] = x}) = 1)

\* Mutant of MergeArrays: "remove duplicates" drops every element that occurs twice.
MergeArraysDroppingRepeated(current, proposed) ==
    Arr(OccurringOnce(current.v \o proposed.v))

\* [...new Set([...currentProfile[field], ...extractedInfo[field]])]
MergeArrays(current, proposed) == Arr(SetSpread(current.v \o proposed.v, {}))

\* The condition of the loop body: extractedInfo[field] && Array.isArray(extractedInfo[field])
NeedsRead(extractedInfo, i) ==
    /\ Truthy(Get(extractedInfo, arrayFields[i]))
    /\ IsArray(Get(extractedInfo, arrayFields[i]))

\* The next index of arrayFields, from i on, whose field the loop reads; 0 when none is left.
RECURSIVE NextRead(_, _)
NextRead(extractedInfo, i) ==
    IF i > Len(arrayFields) THEN 0
    ELSE IF NeedsRead(extractedInfo, i) THEN i
    ELSE NextRead(extractedInfo, i + 1)

\* One iteration of the loop after its select returned currentProfile (null on a failed select).
AfterRead(updateData, extractedInfo, field, currentProfile) ==
    IF currentProfile # Null /\ Truthy(currentProfile[field])
    THEN Put(updateData, field, MergeArrays(currentProfile[field], extractedInfo[field]))
    ELSE updateData

\* updateData.updated_at = ...; updateData.last_profile_update = ...
Stamp(updateData, now) ==
    Put(Put(updateData, "updated_at", Num(now)), "last_profile_update", Num(now))

----------------------------------------------------------------------------
\* AIService: what the handler gets back

AiText == Str(<<2>>)
\* "I'm having trouble processing your request right now. Please try again in a moment."
ApologyMessage == Str(<<7>>)

\* generateFollowUpSuggestions: at most two of the three questions, in order.
\* 1 = "Tell me about your business type", 2 = "Share your monthly revenue range",
\* 3 = "What's your biggest business challenge?"
generateFollowUpSuggestions(profile) ==
    LET s1 == IF ~Truthy(profile["business_type"]) THEN <<1>> ELSE <<>>
        s2 == IF ~Truthy(profile["monthly_revenue"]) THEN <<2>> ELSE <<>>
        s3 == IF ~Truthy(profile["challenges"]) \/ Len(profile["challenges"].v) = 0
              THEN <<3>> ELSE <<>>
        suggestions == s1 \o s2 \o s3
    IN  SubSeq(suggestions, 1, IF Len(suggestions) < 2 THEN Len(suggestions) ELSE 2)

\* getRelevantContext: the important fields whose value is truthy.
importantFields ==
    {"business_type", "location_city", "monthly_revenue", "peak_hours", "challenges",
     "goals", "platforms_used"}

getRelevantContext(profile) ==
    [f \in {g \in importantFields : Truthy(profile[g])} |-> profile[f]]

\* generateResponse: the collaborator's answer, or the fixed apology when the call fails.
generateResponse(profile, aiOk) ==
    IF aiOk
    THEN [content |-> AiText,
          contextUsed |-> getRelevantContext(profile),
          suggestions |-> generateFollowUpSuggestions(profile)]
    ELSE [content |-> ApologyMessage, contextUsed |-> EmptyObject, suggestions |-> <<>>]

----------------------------------------------------------------------------
\* AIService of the server with /chat/enhanced. String codes: business_type 1 = "salon",
\* 2 = "restaurant", 3 = "retail"; platforms_used 4 = "Zomato", 5 = "Instagram";
\* payment_methods 6 = "UPI"; goals 7 = "increase revenue"; a string is the sequence of
\* its words, 8 = "Below", 9 = "delhi", 10 = "mumbai".

\* !profile.f || profile.f.length === 0
Missing(value) == ~Truthy(value) \/ (value.k \in {"arr", "str"} /\ value.v = <<>>)

\* value?.includes(x) as a condition: undefined (falsy) for null and undefined.
Includes(value, x) == value.k \in {"arr", "str"} /\ x \in Range(value.v)

\* value.includes(x) and value.toLowerCase() raise a TypeError on a value without
\* that method.
NotAString(value) == value.k \notin {"null", "undef", "str"}

\* The first n elements of a sequence: s.slice(0, n).
Slice(s, n) == SubSeq(s, 1, IF Len(s) < n THEN Len(s) ELSE n)

\* The months new Date() can fall in.
Months == 1..12

\* The code of the blank character.
Blank == 17

\* getSeasonalContext in the given month: the sentence of the season and its trailing
\* blank, '' in February and September. Sentences: 1 = Diwali, 2 = Raksha Bandhan,
\* 3 = Holi, 4 = New Year, 5 = monsoon, 6 = summer.
getSeasonalContext(month) ==
    CASE month \in {10, 11} -> Str(<<1, Blank>>)
      [] month = 8 -> Str(<<2, Blank>>)
      [] month \in {3, 4} -> Str(<<3, Blank>>)
      [] month \in {12, 1} -> Str(<<4, Blank>>)
      [] month \in {6, 7} -> Str(<<5, Blank>>)
      [] month = 5 -> Str(<<6, Blank>>)
      [] OTHER -> Str(<<>>)

\* string.trim(): the string without its leading and trailing blanks.
RECURSIVE TrimStart(_)
TrimStart(chars) ==
    IF chars # <<>> /\ Head(chars) = Blank THEN TrimStart(Tail(chars)) ELSE chars

RECURSIVE TrimEnd(_)
TrimEnd(chars) ==
    IF chars # <<>> /\ chars[Len(chars)] = Blank
    THEN TrimEnd(SubSeq(chars, 1, Len(chars) - 1)) ELSE chars

Trim(string) == Str(TrimEnd(TrimStart(string.v)))

\* generateSmartQuestions: at most two of the eleven questions, in order.
generateSmartQuestions(profile) ==
    LET q(cond, n) == IF cond THEN <<n>> ELSE <<>>
        type == profile["business_type"]
    IN  Slice(q(~Truthy(type), 1)
              \o q(~Truthy(profile["location_city"]), 2)
              \o q(~Truthy(profile["monthly_revenue"]), 3)
              \o q(Missing(profile["peak_hours"]), 4)
              \o q(~Truthy(profile["staff_count"]), 5)
              \o q(~Truthy(profile["inventory_source"]), 6)
              \o q(Missing(profile["challenges"]), 7)
              \o q(Missing(profile["goals"]), 8)
              \o q(type = Str(<<2>>) /\ ~Includes(profile["platforms_used"], 4), 9)
              \o q(type = Str(<<1>>) /\ ~Includes(profile["platforms_used"], 5), 10)
              \o q(type = Str(<<3>>) /\ ~Includes(profile["payment_methods"], 6), 11),
              2)

\* The text a template literal or join gives for a value: the string itself, the
\* digits of a number (one code), the elements of an array.
TextOf(value) == value.v

\* Codes of the fixed parts of the context string: 20 = " | ", 21 = "Business: ",
\* 22 = "Location: ", 23 = "Revenue: ", 24 = "Challenges: ", 25 = ", ".
RECURSIVE Join(_, _)
Join(parts, separator) ==
    IF parts = <<>> THEN <<>>
    ELSE IF Len(parts) = 1 THEN Head(parts)
    ELSE Head(parts) \o <<separator>> \o Join(Tail(parts), separator)

\* profile.challenges?.length > 0
HasLength(value) == value.k \in {"arr", "str"} /\ Len(value.v) > 0

\* challenges.join raises a TypeError on a string.
JoinThrows(profile) == HasLength(profile["challenges"]) /\ ~IsArray(profile["challenges"])

\* getRelevantContext of the enhanced class: the parts of the truthy fields joined by
\* " | " into one string.
getRelevantContextJoined(profile) ==
    LET part(cond, label, text) == IF cond THEN <<(<<label>> \o text)>> ELSE <<>>
        challenges == profile["challenges"]
    IN  Str(Join(part(Truthy(profile["business_type"]), 21,
                      TextOf(profile["business_type"]))
                 \o part(Truthy(profile["location_city"]), 22,
                         TextOf(profile["location_city"]))
                 \o part(Truthy(profile["monthly_revenue"]), 23,
                         TextOf(profile["monthly_revenue"]))
                 \o part(HasLength(challenges), 24,
                         Join([i \in 1..Len(challenges.v) |-> <<challenges.v[i]>>], 25)),
                 20))

\* generateEnhancedResponse when its collaborator call succeeded, in the given month.
EnhancedResponse(profile, month) ==
    LET seasonalContext == getSeasonalContext(month)
    IN  [content |-> AiText,
         contextUsed |-> getRelevantContextJoined(profile),
         suggestions |-> generateSmartQuestions(profile),
         seasonalTip |-> IF Truthy(seasonalContext) THEN Trim(seasonalContext) ELSE Null]

\* generateResponse of the enhanced class, which generateEnhancedResponse falls back to:
\* a TypeError of getRelevantContext ends in the catch block like a failed call.
generateResponseJoined(profile, aiOk) ==
    IF aiOk /\ ~JoinThrows(profile)
    THEN [content |-> AiText,
          contextUsed |-> getRelevantContextJoined(profile),
          suggestions |-> generateFollowUpSuggestions(profile)]
    ELSE [content |-> ApologyMessage, contextUsed |-> EmptyObject, suggestions |-> <<>>]

\* getBusinessInsights: the insights (the service has no calculateProfileCompletion, so
\* the score is 50), or a TypeError when monthly_revenue has no includes method.
getBusinessInsights(profile) ==
    LET revenue == profile["monthly_revenue"]
        i2 == IF profile["business_type"] = Str(<<2>>)
                 /\ ~Includes(profile["platforms_used"], 4)
              THEN <<2>> ELSE <<>>
    IN  IF Truthy(revenue) /\ revenue.k = "num"
        THEN [thrown |-> TRUE, value |-> <<>>]
        ELSE [thrown |-> FALSE,
              value |-> i2 \o (IF Truthy(revenue) /\ Includes(revenue, 8)
                                  /\ ~Includes(profile["goals"], 7)
                               THEN <<3>> ELSE <<>>)]

\* generateContextualTips: at most two tips, or a TypeError when business_type or
\* location_city has no toLowerCase method.
generateContextualTips(profile) ==
    LET type == profile["business_type"]
        location == profile["location_city"]
        byType == CASE type = Str(<<2>>) ->
                         <<1>> \o (IF ~Includes(profile["platforms_used"], 5)
                                   THEN <<2>> ELSE <<>>)
                    [] type = Str(<<1>>) -> <<3, 4>>
                    [] type = Str(<<3>>) -> <<5, 6>>
                    [] OTHER -> <<>>
        byLocation == IF Includes(location, 9) \/ Includes(location, 10)
                      THEN <<7>> ELSE <<>>
    IN  IF NotAString(type) \/ NotAString(location)
        THEN [thrown |-> TRUE, value |-> <<>>]
        ELSE [thrown |-> FALSE, value |-> Slice(byType \o byLocation, 2)]

----------------------------------------------------------------------------
\* ProfileManager: analytics over conversation_logs. One tick of the clock is one day.

\* The row the insert of logConversation stores: the entry and the created_at default.
LogRow(entry, now) ==
    [c \in DOMAIN entry \cup {"created_at"} |->
        IF c = "created_at" THEN Num(now) ELSE entry[c]]

\* Characters of a query string: 0..9 the digits, 10..15 the letters a..f (A..F),
\* 16 = "x" ("X"), 17 the blank, 18 = "-", 19 = "+", 20 and above any other character.
LetterX == 16
Minus == 18
Plus == 19

\* The number the leading digits of the radix spell, continuing from n.
RECURSIVE LeadingDigits(_, _, _)
LeadingDigits(chars, radix, n) ==
    IF chars = <<>> \/ Head(chars) >= radix THEN n
    ELSE LeadingDigits(Tail(chars), radix, radix * n + Head(chars))

\* parseInt(string) without a radix: leading blanks are skipped, a sign is read, "0x"
\* selects radix 16; the number of the leading digits, NaN when there is none.
parseInt(string) ==
    LET trimmed == TrimStart(string.v)
        signed == trimmed # <<>> /\ Head(trimmed) \in {Minus, Plus}
        sign == IF signed /\ Head(trimmed) = Minus THEN -1 ELSE 1
        unsigned == IF signed THEN Tail(trimmed) ELSE trimmed
        hex == Len(unsigned) >= 2 /\ unsigned[1] = 0 /\ unsigned[2] = LetterX
        radix == IF hex THEN 16 ELSE 10
        digits == IF hex THEN Tail(Tail(unsigned)) ELSE unsigned
    IN  IF digits = <<>> \/ Head(digits) >= radix THEN NaN
        ELSE Num(sign * LeadingDigits(digits, radix, 0))

\* data.reduce((sum, log) => sum + (log.response_time_ms || 0), 0)
RECURSIVE SumResponseTimes(_)
SumResponseTimes(data) ==
    IF data = <<>> THEN 0
    ELSE (IF Truthy(Head(data)["response_time_ms"])
          THEN Head(data)["response_time_ms"].v[1] ELSE 0)
         + SumResponseTimes(Tail(data))

\* Math.round(n / d) for n >= 0 and d > 0: halves round up.
MathRound(n, d) == (2 * n + d) \div (2 * d)

\* The fields of extracted_info that getAnalytics counts as topics.
TopicFields == {"business_type", "location_city"}

\* topicCounts: one map keyed by the value, counting for each entry with a truthy
\* extracted_info its truthy business_type and its truthy location_city; the same
\* string in both fields counts twice under one key.
TopicCounts(data) ==
    LET infos == {i \in 1..Len(data) :
                    ~IsValue(data[i]["extracted_info"])
                       \/ Truthy(data[i]["extracted_info"])}
        Topic(i, f) == Get(data[i]["extracted_info"], f)
        named == {p \in infos \X TopicFields : Truthy(Topic(p[1], p[2]))}
    IN  [t \in {Topic(p[1], p[2]) : p \in named} |->
            Cardinality({p \in named : Topic(p[1], p[2]) = t})]

\* What the catch block of getAnalytics returns.
ZeroAnalytics ==
    [total_conversations |-> 0, avg_response_time_ms |-> 0,
     topics |-> EmptyObject, recent_activity |-> <<>>]

\* The days a Date can lie before or after the epoch: 8.64e15 ms.
MaxDateDays == 100000000

\* new Date(Date.now() - days * 24 * 60 * 60 * 1000) is an invalid Date, on which
\* toISOString throws its RangeError: days is NaN, or the day is out of the range.
InvalidCutoff(days, now) ==
    \/ days = NaN
    \/ now - days.v[1] < -MaxDateDays
    \/ now - days.v[1] > MaxDateDays

\* getAnalytics(user_id, days) on the table `logs` at time `now`; `ok` is the outcome of
\* the select. With an invalid cutoff date toISOString throws inside the try, the select
\* is not issued and the catch block returns the zero result.
getAnalytics(logs, user_id, days, now, ok) ==
    IF InvalidCutoff(days, now) \/ ~ok THEN ZeroAnalytics
    ELSE LET data == SelectSeq(logs, LAMBDA log :
                        /\ log["user_id"] = user_id
                        /\ log["created_at"].v[1] >= now - days.v[1])
             totalConversations == Len(data)
         IN  [total_conversations |-> totalConversations,
              avg_response_time_ms |->
                  IF totalConversations > 0
                  THEN MathRound(SumResponseTimes(data), totalConversations)
                  ELSE 0,
              topics |-> TopicCounts(data),
              recent_activity |-> Slice(data, 5)]

\* getUserByUserId: the mobile_number of the row with that user_id; null when the
\* select failed or did not yield exactly one row.
getUserByUserId(rows, user_id, ok) ==
    LET found == {i \in 1..Len(rows) : rows[i]["user_id"] = user_id}
    IN  IF ok /\ Cardinality(found) = 1
        THEN rows[CHOOSE i \in found : TRUE]["mobile_number"]
        ELSE Null

\* An exception that left a method, as the value of the call.
Thrown == [k |-> "thrown", v |-> <<>>]

\* Mutant of getUserActivitySummary: without its try/catch.
getUserActivitySummaryUncaught(profile, analytics) ==
    IF profile = Null THEN Thrown
    ELSE [profile_completion |-> calculateProfileCompletion(profile),
          last_active |-> profile["updated_at"],
          conversation_count |-> analytics.total_conversations,
          avg_response_time |-> analytics.avg_response_time_ms,
          business_info |-> [type |-> profile["business_type"],
                             location |-> profile["location_city"],
                             revenue |-> profile["monthly_revenue"]]]

\* getUserActivitySummary once profile and analytics are fetched: the summary, or null
\* from the catch block when calculateProfileCompletion(null) raised its TypeError.
getUserActivitySummary(profile, analytics) ==
    IF profile = Null THEN Null
    ELSE [profile_completion |-> calculateProfileCompletion(profile),
          last_active |-> profile["updated_at"],
          conversation_count |-> analytics.total_conversations,
          avg_response_time |-> analytics.avg_response_time_ms,
          business_info |-> [type |-> profile["business_type"],
                             location |-> profile["location_city"],
                             revenue |-> profile["monthly_revenue"]]]

----------------------------------------------------------------------------
\* The state of one handler invocation

Slots == 1..MaxInFlight

NoResponse == [content |-> Null, contextUsed |-> EmptyObject, suggestions |-> <<>>]
NoBody == [error |-> Null]

\* route, mobile_number, message, days: the request. startTime .. analytics: the locals
\* of the handler. extractions, generations: the outcomes of the calls of the
\* text-generation collaborator made for the request so far (TRUE: it answered).
\* logged: the outcome of logConversation. sent, status, body: the responses sent.
IdleRequest ==
    [pc |-> "idle", route |-> "chat", mobile_number |-> Undefined, message |-> Undefined,
     days |-> Undefined, startTime |-> 0,
     userProfile |-> Null, extractedInfo |-> EmptyObject, updateData |-> EmptyObject,
     field |-> 0, data |-> Null, completionScore |-> 0, aiResponse |-> NoResponse,
     analytics |-> Null, extractions |-> <<>>, generations |-> <<>>,
     logged |-> "no", sent |-> 0, status |-> 0, body |-> NoBody, hung |-> FALSE,
     changed |-> {}, logEntry |-> EmptyObject]

\* res.status(code).json(body): the handler is over, its locals are gone.
Respond(r, code, body) ==
    [IdleRequest EXCEPT !.pc = "done", !.route = r.route,
                        !.mobile_number = r.mobile_number, !.message = r.message,
                        !.days = r.days, !.extractions = r.extractions,
                        !.generations = r.generations, !.logged = r.logged,
                        !.sent = r.sent + 1, !.status = code, !.body = body]

\* Mutant of RouteError: the catch block logs the error and sends nothing.
RouteErrorSilent(r) == [Respond(r, 0, NoBody) EXCEPT !.sent = r.sent]

\* The catch block of the route.
\* 5 = 'Something went wrong. Please try again.', 3 = 'Failed to get analytics';
\* /chat/enhanced adds the time the request has taken.
RouteError(r) ==
    Respond(r, 500,
            CASE r.route = "enhanced" ->
                    [error |-> Str(<<5>>), response_time_ms |-> Num(clock - r.startTime)]
              [] r.route = "analytics" -> [error |-> Str(<<3>>)]
              [] OTHER -> [error |-> Str(<<5>>)])

\* The requests that are inside updateProfile for user_id u.
Updating(u) ==
    {s \in Slots : /\ req[s].pc \in {"upd_read", "upd_write", "upd_score"}
                   /\ UserIdOf(req[s].userProfile) = u}

Init ==
    /\ user_profiles = <<>>
    /\ conversation_logs = <<>>
    /\ clock = 1
    /\ served = 0
    /\ req = [s \in Slots |-> IdleRequest]
    /\ faults = 0
    /\ proposedElems = <<>>
    /\ aiService \in AIServices

----------------------------------------------------------------------------
\* POST /chat and POST /chat/enhanced, one action per stretch of the handler between two
\* awaits. `ok` is the outcome of the collaborator call the action ends: TRUE when it
\* succeeded.

\* Mutant of MissingParameter: the test joins its two conditions with && .
MissingParameterBoth(mobile_number, message) == ~Truthy(mobile_number) /\ ~Truthy(message)

\* if (!mobile_number || !message)
MissingParameter(mobile_number, message) == ~Truthy(mobile_number) \/ ~Truthy(message)

\* A request arrives on one of `routes` (at most `limit` in a behaviour); it takes the
\* first free handler slot, and its parameters are validated before the first await.
Receive(s, limit, routes) ==
    /\ req[s].pc \in {"idle", "done"}
    /\ \A t \in Slots : t < s => req[t].pc \notin {"idle", "done"}
    /\ served < limit
    /\ \E route \in routes, m \in MobileInputs, msg \in MessageInputs :
          LET r == [IdleRequest EXCEPT !.route = route, !.mobile_number = m,
                                       !.message = msg, !.startTime = clock]
          IN  req' = [req EXCEPT ![s] =
                        IF MissingParameter(m, msg)
                        THEN Respond(r, 400, [error |-> Str(<<4>>)])
                        ELSE [r EXCEPT !.pc = "getUserProfile"]]
    /\ served' = served + 1
    /\ UNCHANGED <<user_profiles, conversation_logs, clock, proposedElems>>

\* getUserProfile: .single() yields the row when exactly one matches; no row (PGRST116)
\* and a storage error both come back as null.
getUserProfile(mobile_number, ok) ==
    IF ok /\ Cardinality(RowsOf(mobile_number)) = 1
    THEN user_profiles[CHOOSE i \in RowsOf(mobile_number) : TRUE]
    ELSE Null

GetUserProfile(s, ok) ==
    /\ req[s].pc = "getUserProfile"
    /\ LET profile == getUserProfile(req[s].mobile_number, ok)
       IN  req' = [req EXCEPT ![s] =
                     IF profile = Null
                     THEN [@ EXCEPT !.pc = "createUserProfile"]
                     ELSE [@ EXCEPT !.pc = "extractProfileInfo", !.userProfile = profile]]
    /\ UNCHANGED <<user_profiles, conversation_logs, clock, proposedElems>>

\* createUserProfile: insert the new row and return it, or throw to the route's catch.
CreateUserProfile(s, ok) ==
    /\ req[s].pc = "createUserProfile"
    /\ IF ok
       THEN LET row == NewRow(Len(user_profiles) + 1, req[s].mobile_number, clock)
            IN  /\ user_profiles' = Append(user_profiles, row)
                /\ proposedElems' = Append(proposedElems, [f \in Range(arrayFields) |-> {}])
                /\ clock' = clock + 1
                /\ req' = [req EXCEPT ![s] = [@ EXCEPT !.pc = "extractProfileInfo",
                                                       !.userProfile = row]]
       ELSE /\ req' = [req EXCEPT ![s] = RouteError(@)]
            /\ UNCHANGED <<user_profiles, proposedElems, clock>>
    /\ UNCHANGED conversation_logs

\* updateProfile from a finished read on: the next read, or the timestamps and the update.
ContinueUpdate(r, updateData, from, now) ==
    LET next == NextRead(r.extractedInfo, from)
    IN  IF next # 0
        THEN [r EXCEPT !.pc = "upd_read", !.updateData = updateData, !.field = next]
        ELSE [r EXCEPT !.pc = "upd_write", !.updateData = Stamp(updateData, now),
                       !.field = 0]

\* The position of the handler at its response step.
GenerateStep(route) ==
    IF route = "enhanced" THEN "generateEnhancedResponse" ELSE "generateResponse"

\* The handler calls the response method of the loaded AIService and awaits it; on
\* /chat/enhanced with the basic class aiService.generateEnhancedResponse is not a
\* function: the TypeError goes to the catch block of the route.
CallGenerate(r) ==
    IF r.route = "enhanced" /\ aiService = "basic"
    THEN RouteError(r)
    ELSE [r EXCEPT !.pc = GenerateStep(r.route)]

\* The extraction call returns and extractProfileInfo with it; with a result that has
\* keys the handler enters updateProfile and runs to its first await.
ExtractProfileInfo(s, ok) ==
    /\ req[s].pc = "extractProfileInfo"
    /\ \E reply \in ExtractionReplies(ok) :
          LET extractedInfo == extractProfileInfo(reply)
              r == [req[s] EXCEPT !.extractedInfo = extractedInfo,
                                  !.extractions = Append(@, ok)]
              entered == ContinueUpdate(r, Spread(extractedInfo), 1, clock)
          IN  IF Cardinality(Keys(extractedInfo)) > 0
              THEN /\ req' = [req EXCEPT ![s] = entered]
                   /\ clock' = IF entered.pc = "upd_write" THEN clock + 1 ELSE clock
              ELSE /\ req' = [req EXCEPT ![s] = CallGenerate(r)]
                   /\ clock' = clock
    /\ UNCHANGED <<user_profiles, conversation_logs, proposedElems>>

\* The select of one array field returns: merge it into updateData, go on.
\* The select's error is not looked at: a failed select leaves currentProfile null.
UpdateRead(s, ok) ==
    /\ req[s].pc = "upd_read"
    /\ LET r == req[s]
           field == arrayFields[r.field]
           row == user_profiles[UserIdOf(r.userProfile)]
           currentProfile == IF ok THEN [f \in {field} |-> row[f]] ELSE Null
           updateData == AfterRead(r.updateData, r.extractedInfo, field, currentProfile)
           next == ContinueUpdate(r, updateData, r.field + 1, clock)
       IN  /\ req' = [req EXCEPT ![s] = next]
           /\ clock' = IF next.pc = "upd_write" THEN clock + 1 ELSE clock
    /\ UNCHANGED <<user_profiles, conversation_logs, proposedElems>>

\* History: the elements the completed merges of a user have proposed per array field
\* (a write of a non-array value starts the field anew).
Proposed(history, extractedInfo) ==
    [f \in DOMAIN history |->
        IF f \notin Keys(extractedInfo) THEN history[f]
        ELSE IF IsArray(extractedInfo[f]) THEN history[f] \cup Elems(extractedInfo[f])
        ELSE {}]

\* History: the columns in which the written row differs from the row it replaces,
\* the two timestamps of the update aside.
ChangedFields(row, data) ==
    {c \in DOMAIN row \ {"updated_at", "last_profile_update"} : data[c] # row[c]}

\* .update(updateData).eq('user_id', user_id).select().single() returns: the row is
\* written and comes back as data, or the error is thrown to the route's catch.
UpdateWrite(s, ok) ==
    /\ req[s].pc = "upd_write"
    /\ LET r == req[s]
           u == UserIdOf(r.userProfile)
           data == ApplyUpdate(user_profiles[u], r.updateData)
       IN  IF ok
           THEN /\ user_profiles' = [user_profiles EXCEPT ![u] = data]
                /\ proposedElems' = [proposedElems EXCEPT ![u] = Proposed(@, r.extractedInfo)]
                /\ req' = [req EXCEPT ![s] =
                             [r EXCEPT !.pc = "upd_score", !.data = data,
                                       !.updateData = EmptyObject,
                                       !.changed = ChangedFields(user_profiles[u], data),
                                       !.completionScore = calculateProfileCompletion(data)]]
           ELSE /\ req' = [req EXCEPT ![s] = RouteError(r)]
                /\ UNCHANGED <<user_profiles, proposedElems>>
    /\ UNCHANGED <<conversation_logs, clock>>

\* The update of profile_completion_score returns (its error is not looked at);
\* updateProfile returns data, which becomes the handler's userProfile.
UpdateScore(s, ok) ==
    /\ req[s].pc = "upd_score"
    /\ LET r == req[s]
           u == UserIdOf(r.userProfile)
       IN  /\ user_profiles' =
                 IF ok
                 THEN [user_profiles EXCEPT
                         ![u]["profile_completion_score"] = Num(r.completionScore)]
                 ELSE user_profiles
           /\ req' = [req EXCEPT ![s] =
                        CallGenerate([r EXCEPT !.userProfile = r.data,
                                               !.data = Null, !.completionScore = 0])]
    /\ UNCHANGED <<conversation_logs, clock, proposedElems>>

\* The entry the handler hands to logConversation (the requests carry no session_id).
LogEntry(r, now) ==
    [user_id |-> r.userProfile["user_id"],
     user_message |-> r.message,
     ai_response |-> r.aiResponse.content,
     extracted_info |-> r.extractedInfo,
     profile_updates |-> Keys(r.extractedInfo),
     context_used |-> r.aiResponse.contextUsed,
     response_time_ms |-> Num(now - r.startTime),
     session_id |-> Null]

\* The months a request is served in.
MonthInputs == {2, 8, 10}

\* The handler has its aiResponse: it builds the log entry, reading the clock for
\* response_time_ms, and calls logConversation.
CallLog(r, aiResponse, now) ==
    LET answered == [r EXCEPT !.pc = "logConversation", !.aiResponse = aiResponse]
    IN  [answered EXCEPT !.logEntry = LogEntry(answered, now)]

\* The collaborator call of generateEnhancedResponse returns: with its answer the
\* enhanced response; when it failed (or getRelevantContext raised) the catch block
\* calls generateResponse, which calls the collaborator again.
GenerateEnhancedResponse(s, ok) ==
    /\ req[s].pc = "generateEnhancedResponse"
    /\ \E month \in MonthInputs :
          LET r == [req[s] EXCEPT !.generations = Append(@, ok)]
          IN  req' = [req EXCEPT ![s] =
                        IF ok /\ ~JoinThrows(r.userProfile)
                        THEN CallLog(r, EnhancedResponse(r.userProfile, month), clock)
                        ELSE [r EXCEPT !.pc = "generateResponse"]]
    /\ UNCHANGED <<user_profiles, conversation_logs, clock, proposedElems>>

\* The collaborator call of generateResponse returns: its text or the apology, from
\* the AIService class the server has loaded.
GenerateResponse(s, ok) ==
    /\ req[s].pc = "generateResponse"
    /\ LET r == [req[s] EXCEPT !.generations = Append(@, ok)]
       IN  req' = [req EXCEPT ![s] =
                     CallLog(r, IF aiService = "enhanced"
                                THEN generateResponseJoined(r.userProfile, ok)
                                ELSE generateResponse(r.userProfile, ok),
                             clock)]
    /\ UNCHANGED <<user_profiles, conversation_logs, clock, proposedElems>>

\* Mutant of logConversation: the catch block rethrows.
logConversationRethrowing(ok) == IF ok THEN "ok" ELSE "thrown"

\* logConversation: "ok" when the insert succeeded, "failed" when its error was caught,
\* "thrown" when it leaves the method.
logConversation(ok) == IF ok THEN "ok" ELSE "failed"

\* The body of the success response.
ChatBody(r) ==
    [response |-> r.aiResponse.content,
     profile_completion |-> calculateProfileCompletion(r.userProfile),
     extracted_info |-> r.extractedInfo,
     suggestions |-> r.aiResponse.suggestions]

\* The body of the success response of /chat/enhanced.
EnhancedBody(r, recentAnalytics, businessInsights, contextualTips) ==
    [response |-> r.aiResponse.content,
     profile_completion |-> calculateProfileCompletion(r.userProfile),
     extracted_info |-> r.extractedInfo,
     smart_features |->
        [smart_questions |-> r.aiResponse.suggestions,
         seasonal_tip |-> IF "seasonalTip" \in DOMAIN r.aiResponse
                          THEN r.aiResponse.seasonalTip ELSE Undefined,
         business_insights |-> businessInsights,
         contextual_tips |-> contextualTips],
     analytics_preview |->
        [total_conversations |-> recentAnalytics.total_conversations,
         avg_response_time |-> recentAnalytics.avg_response_time_ms],
     context_used |-> r.aiResponse.contextUsed,
     response_time_ms |-> Num(clock - r.startTime)]

\* logConversation returns; /chat computes the score and sends the response,
\* /chat/enhanced goes on to its analytics preview.
LogConversation(s, ok) ==
    /\ req[s].pc = "logConversation"
    /\ LET outcome == logConversation(ok)
           r == [req[s] EXCEPT !.logged = outcome]
       IN  /\ conversation_logs' =
                 IF ok THEN Append(conversation_logs, LogRow(r.logEntry, clock))
                 ELSE conversation_logs
           /\ req' = [req EXCEPT ![s] =
                        IF outcome = "thrown" THEN RouteError(r)
                        ELSE IF r.route = "enhanced" THEN [r EXCEPT !.pc = "getAnalytics"]
                        ELSE Respond(r, 200, ChatBody(r))]
    /\ UNCHANGED <<user_profiles, clock, proposedElems>>

\* getAnalytics(user_id, 7) returns to /chat/enhanced; the handler computes the
\* insights and the tips and sends the response, or one of the two raises its TypeError
\* and the catch block of the route answers.
GetAnalytics(s, ok) ==
    /\ req[s].pc = "getAnalytics"
    /\ LET r == req[s]
           recentAnalytics == getAnalytics(conversation_logs, r.userProfile["user_id"],
                                           Num(7), clock, ok)
           businessInsights == getBusinessInsights(r.userProfile)
           contextualTips == generateContextualTips(r.userProfile)
       IN  req' = [req EXCEPT ![s] =
                     IF businessInsights.thrown \/ contextualTips.thrown
                     THEN RouteError(r)
                     ELSE Respond(r, 200, EnhancedBody(r, recentAnalytics,
                                                       businessInsights.value,
                                                       contextualTips.value))]
    /\ UNCHANGED <<user_profiles, conversation_logs, clock, proposedElems>>

\* A collaborator call (storage, extraction, response generation) returns to handler s.
Returns(s, ok) ==
    /\ ~req[s].hung
    /\ \/ GetUserProfile(s, ok)
       \/ CreateUserProfile(s, ok)
       \/ ExtractProfileInfo(s, ok)
       \/ UpdateRead(s, ok)
       \/ UpdateWrite(s, ok)
       \/ UpdateScore(s, ok)
       \/ GenerateEnhancedResponse(s, ok)
       \/ GenerateResponse(s, ok)
       \/ LogConversation(s, ok)
       \/ GetAnalytics(s, ok)

\* A step of handler s whose collaborator call succeeds.
Run(s) ==
    /\ Returns(s, TRUE)
    /\ UNCHANGED <<served, faults, aiService>>

\* A collaborator call fails: at most MaxFaults times in a behaviour.
Fault(s) ==
    /\ faults < MaxFaults
    /\ Returns(s, FALSE)
    /\ faults' = faults + 1
    /\ UNCHANGED <<served, aiService>>

\* A /chat request arrives while others may be in progress.
Arrive(s) == Receive(s, MaxInFlight, {"chat"}) /\ UNCHANGED <<faults, aiService>>

\* A /chat request arrives when no other is in progress.
ArriveNext == Receive(1, MaxRequests, {"chat"}) /\ UNCHANGED <<faults, aiService>>

\* A request arrives on either chat route when no other is in progress.
ArriveRoute == Receive(1, MaxChats, Routes) /\ UNCHANGED <<faults, aiService>>

\* Requests overlap; collaborator calls may fail.
Next == \E s \in Slots : Arrive(s) \/ Run(s) \/ Fault(s)

Spec == Init /\ [][Next]_vars

\* Requests overlap; no collaborator call fails.
NextReliable == \E s \in Slots : Arrive(s) \/ Run(s)

SpecReliable == Init /\ [][NextReliable]_vars

\* One request at a time; collaborator calls may fail.
NextSeq == ArriveNext \/ Run(1) \/ Fault(1)

SpecSeq == Init /\ [][NextSeq]_vars

\* /chat and /chat/enhanced, one request at a time; collaborator calls may fail.
NextRoutes == ArriveRoute \/ Run(1) \/ Fault(1)

SpecRoutes == Init /\ [][NextRoutes]_vars

\* SpecRoutes when every collaborator call returns or fails in the end: the handler
\* takes its next step.
SpecRoutesFair == SpecRoutes /\ WF_vars(Run(1))

\* The collaborator call the handler in slot s awaits never settles: the handler has
\* no timer of its own, so nothing resumes it.
NeverReturns(s) ==
    /\ req[s].pc \notin {"idle", "done"}
    /\ ~req[s].hung
    /\ req' = [req EXCEPT ![s].hung = TRUE]
    /\ UNCHANGED <<user_profiles, conversation_logs, clock, served, faults, proposedElems,
                   aiService>>

\* One request at a time on either chat route; every awaited call returns, fails or
\* never settles.
NextStall == ArriveRoute \/ Run(1) \/ Fault(1) \/ NeverReturns(1)

SpecStall == Init /\ [][NextStall]_vars

\* SpecStall when every handler that can take its next step takes it.
SpecStallFair == SpecStall /\ WF_vars(Run(1)) /\ WF_vars(Fault(1))

----------------------------------------------------------------------------
\* updateProfile as one uninterrupted call whose storage calls all succeed

\* The loop over arrayFields, every select returning the row's current value.
RECURSIVE ReadAll(_, _, _, _)
ReadAll(updateData, extractedInfo, row, i) ==
    IF i > Len(arrayFields) THEN updateData
    ELSE IF NeedsRead(extractedInfo, i)
    THEN ReadAll(AfterRead(updateData, extractedInfo, arrayFields[i],
                           [f \in {arrayFields[i]} |-> row[f]]),
                 extractedInfo, row, i + 1)
    ELSE ReadAll(updateData, extractedInfo, row, i + 1)

\* The stored row after updateProfile(user_id, extractedInfo) ran alone on `row` at time `now`.
\* (updateData and data are bound variables, so that each is computed once.)
updateProfile(row, extractedInfo, now) ==
    CHOOSE stored \in
        { [data EXCEPT !["profile_completion_score"] = Num(calculateProfileCompletion(data))] :
            data \in { ApplyUpdate(row, updateData) :
                         updateData \in { Stamp(ReadAll(Spread(extractedInfo), extractedInfo,
                                                        row, 1), now) } } } : TRUE

\* The steps of the handler and the uninterrupted call agree: when updateProfile returns
\* in a behaviour without a failed call, the stored row is the one the operator gives
\* for the profile the handler fetched (SpecSeq).
UpdateProfileAgrees ==
    [][\A s \in Slots :
          (req[s].pc = "upd_score" /\ req'[s].pc = "generateResponse" /\ faults' = 0) =>
             user_profiles'[UserIdOf(req[s].userProfile)]
                = updateProfile(req[s].userProfile, req[s].extractedInfo, clock - 1)]_vars

----------------------------------------------------------------------------
\* GET /analytics/:mobile_number on stored tables: the tables are drawn (no profile, one
\* profile, two profiles of one mobile_number, profiles of two mobile_numbers; up to
\* MaxLogs log rows), and the handler runs on them with calls that may fail.

\* mobile_number of the path: one with a profile in every non-empty table, one without
\* in most.
AnalyticsMobiles == {Str(<<9>>), Str(<<8>>)}

\* ?days= of the query: absent, "2", "-5", "999999999" and "z" (a character that is
\* no digit).
DaysInputs ==
    {Undefined, Str(<<2>>), Str(<<Minus, 5>>), Str(<<9, 9, 9, 9, 9, 9, 9, 9, 9>>),
     Str(<<25>>)}

\* A profile as a chat request leaves it: created at time 1, merged at time 2.
MergedProfile(id, mobile_number) ==
    updateProfile(NewRow(id, mobile_number, 1),
                  [business_type |-> Str(<<1>>), location_city |-> Str(<<11>>)], 2)

ProfileTables ==
    { <<>>,
      <<MergedProfile(1, Str(<<9>>))>>,
      <<MergedProfile(1, Str(<<9>>)), NewRow(2, Str(<<9>>), 3)>>,
      <<MergedProfile(1, Str(<<9>>)), NewRow(2, Str(<<8>>), 3)>> }

\* A row of conversation_logs as a chat request of the server with the given AIService
\* writes it: for user 1 the request that merged business_type and location_city, for
\* user 2 a request without extraction. response_time_ms is a number, or null in a row
\* written by the server that set req.startTime after its routes (Date.now() -
\* undefined is NaN, stored as null).
StoredLog(service, user, response_time_ms, created_at) ==
    LET extractedInfo == IF user = 1
                         THEN [business_type |-> Str(<<1>>), location_city |-> Str(<<11>>)]
                         ELSE EmptyObject
        profile == IF user = 1 THEN MergedProfile(user, Str(<<9>>))
                   ELSE NewRow(user, Str(<<9>>), 3)
        aiResponse == IF service = "enhanced" THEN generateResponseJoined(profile, TRUE)
                      ELSE generateResponse(profile, TRUE)
    IN  LogRow([user_id |-> Num(user),
                user_message |-> Str(<<1>>),
                ai_response |-> aiResponse.content,
                extracted_info |-> extractedInfo,
                profile_updates |-> Keys(extractedInfo),
                context_used |-> aiResponse.contextUsed,
                response_time_ms |-> response_time_ms,
                session_id |-> Null],
               created_at)

\* Rows of user 1, written 35 days or 1 day before the request, and a row of user 2.
LogRows(service) ==
    {StoredLog(service, 1, t, at) : t \in {Null, Num(1), Num(2)}, at \in {5, 39}}
       \cup {StoredLog(service, 2, Num(1), 39)}

LogTables(service) == UNION {[1..n -> LogRows(service)] : n \in 0..MaxLogs}

InitAnalytics ==
    /\ user_profiles \in ProfileTables
    /\ aiService \in AIServices
    /\ conversation_logs \in LogTables(aiService)
    /\ clock = 40
    /\ served = 0
    /\ req = [s \in Slots |-> IdleRequest]
    /\ faults = 0
    /\ proposedElems = [u \in 1..Len(user_profiles) |-> [f \in Range(arrayFields) |-> {}]]

AnReceive ==
    /\ req[1].pc \in {"idle", "done"}
    /\ served < MaxChats
    /\ \E m \in AnalyticsMobiles, days \in DaysInputs :
          req' = [req EXCEPT ![1] =
                    [IdleRequest EXCEPT !.pc = "an_getUserProfile", !.route = "analytics",
                                        !.mobile_number = m, !.days = days,
                                        !.startTime = clock]]
    /\ served' = served + 1
    /\ UNCHANGED <<user_profiles, conversation_logs, clock, faults, proposedElems,
                   aiService>>

\* getUserProfile returns to the route: 404 without a profile.
AnGetUserProfile(ok) ==
    /\ req[1].pc = "an_getUserProfile"
    /\ LET profile == getUserProfile(req[1].mobile_number, ok)
       IN  req' = [req EXCEPT ![1] =
                     IF profile = Null
                     THEN Respond(@, 404, [error |-> Str(<<6>>)])
                     ELSE [@ EXCEPT !.pc = "an_getAnalytics", !.userProfile = profile]]

\* days ? parseInt(days) : 30
DaysOf(days) == IF Truthy(days) THEN parseInt(days) ELSE Num(30)

\* getAnalytics(userProfile.user_id, days) returns to the route, which calls
\* getUserActivitySummary; that calls getUserByUserId.
AnGetAnalytics(ok) ==
    /\ req[1].pc = "an_getAnalytics"
    /\ req' = [req EXCEPT ![1] =
                 [@ EXCEPT !.pc = "getUserByUserId",
                           !.analytics = getAnalytics(conversation_logs,
                                                      req[1].userProfile["user_id"],
                                                      DaysOf(req[1].days), clock, ok)]]

\* getUserByUserId returns to getUserActivitySummary, which calls getUserProfile.
GetUserByUserId(ok) ==
    /\ req[1].pc = "getUserByUserId"
    /\ req' = [req EXCEPT ![1] =
                 [@ EXCEPT !.pc = "sum_getUserProfile",
                           !.data = getUserByUserId(user_profiles,
                                                    req[1].userProfile["user_id"], ok)]]

\* getUserProfile returns to getUserActivitySummary, which calls getAnalytics.
SumGetUserProfile(ok) ==
    /\ req[1].pc = "sum_getUserProfile"
    /\ req' = [req EXCEPT ![1] =
                 [@ EXCEPT !.pc = "sum_getAnalytics",
                           !.data = getUserProfile(req[1].data, ok)]]

\* The body of the success response of /analytics.
AnalyticsBody(r, activitySummary) ==
    [mobile_number |-> r.mobile_number,
     analytics |-> r.analytics,
     activity_summary |-> activitySummary,
     profile_completion |-> calculateProfileCompletion(r.userProfile)]

\* getAnalytics(user_id, 30) returns to getUserActivitySummary, which returns to the
\* route; the route sends the response (its catch block, had the summary thrown).
SumGetAnalytics(ok) ==
    /\ req[1].pc = "sum_getAnalytics"
    /\ LET r == req[1]
           analytics == getAnalytics(conversation_logs, r.userProfile["user_id"],
                                     Num(30), clock, ok)
           activitySummary == getUserActivitySummary(r.data, analytics)
       IN  req' = [req EXCEPT ![1] =
                     IF activitySummary = Thrown THEN RouteError(r)
                     ELSE Respond(r, 200, AnalyticsBody(r, activitySummary))]

\* A storage call returns to the handler of /analytics.
AnReturns(ok) ==
    /\ \/ AnGetUserProfile(ok)
       \/ AnGetAnalytics(ok)
       \/ GetUserByUserId(ok)
       \/ SumGetUserProfile(ok)
       \/ SumGetAnalytics(ok)
    /\ UNCHANGED <<user_profiles, conversation_logs, clock, served, proposedElems,
                   aiService>>

AnRun == AnReturns(TRUE) /\ UNCHANGED faults

AnFault ==
    /\ faults < MaxFaults
    /\ AnReturns(FALSE)
    /\ faults' = faults + 1

NextAnalytics == AnReceive \/ AnRun \/ AnFault

SpecAnalytics == InitAnalytics /\ [][NextAnalytics]_vars

----------------------------------------------------------------------------
\* calculateProfileCompletion on arbitrary profiles: a profile is drawn with any set of
\* weighted fields filled and the others empty in one of the four empty forms, and the
\* score is computed and persisted as updateProfile's last step does.

EmptyForms == {Null, Undefined, Str(<<>>), Arr(<<>>)}

FilledValue(c) == IF c \in SequenceAttributes THEN Arr(<<1>>) ELSE Str(<<1>>)

ProfileWith(filled, empty) ==
    [c \in Columns |->
        CASE c \in filled -> FilledValue(c)
          [] c \in Range(fieldNames) -> empty
          [] c = "user_id" -> Num(1)
          [] OTHER -> Null]

InitScore ==
    /\ \E filled \in SUBSET Range(fieldNames), empty \in EmptyForms :
          user_profiles = <<ProfileWith(filled, empty)>>
    /\ conversation_logs = <<>>
    /\ clock = 1
    /\ served = 0
    /\ req = [s \in Slots |-> IdleRequest]
    /\ faults = 0
    /\ proposedElems = <<[f \in Range(arrayFields) |-> {}]>>
    /\ aiService = "basic"

ScoreProfile ==
    /\ user_profiles[1]["profile_completion_score"] = Null
    /\ user_profiles' =
          [user_profiles EXCEPT ![1]["profile_completion_score"] =
              Num(calculateProfileCompletion(user_profiles[1]))]
    /\ UNCHANGED <<conversation_logs, clock, served, req, faults, proposedElems,
                   aiService>>

NextScore == ScoreProfile

SpecScore == InitScore /\ [][NextScore]_vars

----------------------------------------------------------------------------
\* Properties

Users == 1..Len(user_profiles)

\* The handler in slot s takes the step that leads from position `from` to position `to`.
Moves(s, from, to) == req[s].pc = from /\ req'[s].pc = to

NoDuplicates(value) == IsArray(value) => Cardinality(Range(value.v)) = Len(value.v)

\* C1: no sequence attribute of a stored profile contains the same element twice.
C1_NoDuplicateElements ==
    \A u \in Users : \A f \in SequenceAttributes : NoDuplicates(user_profiles[u][f])

\* C2: when updateProfile writes the row, every sequence attribute (all ten) that the
\* extraction result proposes as an array holds the union of the elements stored before
\* and the proposed elements.
C2_SequenceUnion ==
    [][\A s \in Slots :
          Moves(s, "upd_write", "upd_score") =>
             LET u == UserIdOf(req[s].userProfile)
                 extractedInfo == req[s].extractedInfo
             IN  \A f \in SequenceAttributes \cap Keys(extractedInfo) :
                    IsArray(extractedInfo[f]) =>
                       Elems(user_profiles'[u][f])
                          = Elems(user_profiles[u][f]) \cup Elems(extractedInfo[f])]_vars

\* C3: a key of the extraction result that is no recognized profile field is never
\* stored: no stored profile has an attribute under that key.
C3_UnrecognizedKeyIgnored ==
    \A u \in Users : \A key \in UnrecognizedKeys : user_profiles[u][key] = Undefined

\* The attributes updateProfile may change for an extraction result.
MayChange(extractedInfo) ==
    Keys(extractedInfo) \cup {"updated_at", "last_profile_update", "profile_completion_score"}

\* C4: updateProfile changes only the attributes named in the extraction result plus
\* updated_at, last_profile_update and profile_completion_score: a stored attribute
\* changes only by a write of a running updateProfile whose extraction result names it,
\* and when updateProfile returns every other attribute has the value the handler
\* fetched before the merge.
C4_FrameOfUpdate ==
    [][/\ \A u \in Users : \A c \in Columns :
             user_profiles'[u][c] # user_profiles[u][c] =>
                \E s \in Updating(u) : c \in MayChange(req[s].extractedInfo)
       /\ \A s \in Slots :
             Moves(s, "upd_score", "generateResponse") =>
                \A c \in Columns \ MayChange(req[s].extractedInfo) :
                   user_profiles'[UserIdOf(req[s].userProfile)][c] = req[s].userProfile[c]]_vars

\* An update has returned whose extraction result does not name business_type, and the
\* business_type set by an earlier message is still stored.
C4_Witness ==
    \E s \in Slots :
        /\ req[s].pc = "generateResponse"
        /\ Keys(req[s].extractedInfo) # {}
        /\ "business_type" \notin Keys(req[s].extractedInfo)
        /\ user_profiles[UserIdOf(req[s].userProfile)]["business_type"] = Str(<<1>>)

\* Two attribute values are equal, sequence attributes compared as sets.
SameValue(a, b) == IF IsArray(a) /\ IsArray(b) THEN Range(a.v) = Range(b.v) ELSE a = b

\* Two profiles hold the same attribute values, timestamps aside.
SameProfile(p, q) ==
    \A c \in Columns \ {"updated_at", "last_profile_update"} : SameValue(p[c], q[c])

\* C5: for every stored profile P and extraction result X,
\* merge(merge(P, X), X) == merge(P, X), timestamps aside and sequences as sets
\* (stated of every profile at the step that stores it: no profile is stored initially).
C5_MergeIdempotent ==
    [][\A u \in 1..Len(user_profiles') :
          (u > Len(user_profiles) \/ user_profiles'[u] # user_profiles[u]) =>
             \A extractedInfo \in Extractions :
                \A once \in {updateProfile(user_profiles'[u], extractedInfo, clock')} :
                   \A twice \in {updateProfile(once, extractedInfo, clock' + 1)} :
                      SameProfile(twice, once)]_vars

\* A profile whose goals were merged from two messages is stored, so that merging the
\* extraction results again meets elements that are already there.
C5_Witness ==
    \E u \in Users :
        /\ Elems(user_profiles[u]["goals"]) = {1, 2, 3}
        /\ \E extractedInfo \in Extractions :
              ~SameProfile(updateProfile(user_profiles[u], extractedInfo, clock),
                           user_profiles[u])

\* The sum of the weights of a set of weighted fields.
RECURSIVE WeightOf(_)
WeightOf(S) ==
    IF S = {} THEN 0
    ELSE LET f == CHOOSE g \in S : TRUE IN fields[f] + WeightOf(S \ {f})

\* The weighted fields of a profile that are filled, in the words of the claim.
FilledFields(profile) ==
    {f \in Range(fieldNames) :
        profile[f] \notin {Null, Undefined, Str(<<>>), Arr(<<>>)}}

\* C6: the score is round(100 * filled weight / total weight), the weights sum to 100,
\* the score is an integer in 0..100, it is 5 when only mobile_number is filled and 100
\* when every weighted field is filled.
C6_CompletionScore ==
    \A u \in Users :
        LET profile == user_profiles[u]
            score == calculateProfileCompletion(profile)
            filled == WeightOf(FilledFields(profile))
            total == WeightOf(Range(fieldNames))
        IN  /\ total = 100
            /\ score \in 0..100
            /\ 2 * total * score <= 200 * filled + total
            /\ 200 * filled + total < 2 * total * (score + 1)
            /\ FilledFields(profile) = {"mobile_number"} => score = 5
            /\ FilledFields(profile) = Range(fieldNames) => score = 100
            /\ profile["profile_completion_score"] # Null =>
                  profile["profile_completion_score"] = Num(score)

\* The score of a profile with several but not all weighted fields filled has been
\* computed and persisted.
C6_Witness ==
    \E u \in Users :
        /\ FilledFields(user_profiles[u]) = {"mobile_number", "business_type", "goals"}
        /\ user_profiles[u]["profile_completion_score"] = Num(23)

\* C7: the completion score of a stored profile never decreases.
C7_ScoreMonotone ==
    [][\A u \in Users :
          calculateProfileCompletion(user_profiles'[u])
             >= calculateProfileCompletion(user_profiles[u])]_vars

\* C8: whenever no updateProfile call for a profile is in progress, its persisted
\* profile_completion_score is calculateProfileCompletion of its stored attributes.
C8_PersistedScoreCurrent ==
    \A u \in Users :
        Updating(u) = {} =>
           user_profiles[u]["profile_completion_score"]
              = Num(calculateProfileCompletion(user_profiles[u]))

\* C9: once the merges of a profile have completed, each array field holds every
\* element any of them proposed (with it, every element stored before): no lost update.
C9_NoLostUpdate ==
    \A u \in Users :
        Updating(u) = {} =>
           \A f \in Range(arrayFields) :
              proposedElems[u][f] \subseteq Elems(user_profiles[u][f])

\* C10: when logConversation returns, whether its insert succeeded or failed, the
\* handler of /chat sends the success response built from the response text, the
\* profile, the extraction result and the suggestions (the handler of /chat/enhanced
\* goes on with these unchanged).
C10_LogFailureInvisible ==
    [][\A s \in Slots :
          req[s].pc = "logConversation" /\ req'[s].pc # "logConversation" =>
             /\ req[s].route = "chat" =>
                   /\ req'[s].pc = "done"
                   /\ req'[s].status = 200
                   /\ req'[s].body.response = req[s].aiResponse.content
                   /\ req'[s].body.profile_completion
                         = calculateProfileCompletion(req[s].userProfile)
                   /\ req'[s].body.extracted_info = req[s].extractedInfo
                   /\ req'[s].body.suggestions = req[s].aiResponse.suggestions
             /\ req[s].route = "enhanced" =>
                   req'[s] = [req[s] EXCEPT !.pc = "getAnalytics",
                                            !.logged = req'[s].logged]
             /\ user_profiles' = user_profiles]_vars

\* A request whose log insert failed has been answered, with the success response.
C10_Witness ==
    \E s \in Slots :
        /\ req[s].pc = "done"
        /\ req[s].route = "chat"
        /\ req[s].logged = "failed"
        /\ req[s].status = 200
        /\ req[s].body.response = AiText
        /\ conversation_logs = <<>>

\* The handler in slot s is between receiving its request and sending its response.
Running(s) == req[s].pc \notin {"idle", "done"}

\* C11: when the extraction call fails (it throws, or its answer is no JSON),
\* extractProfileInfo returns the empty object, the handler goes to the response step
\* without entering updateProfile, no stored profile changes during the rest of the
\* request, and the /chat request ends with the success response.
C11_ExtractionFailureDegrades ==
    [][\A s \in Slots :
          /\ (req[s].pc = "extractProfileInfo" /\ req'[s].extractions = <<FALSE>>) =>
                /\ req'[s].extractedInfo = EmptyObject
                /\ req'[s].pc = GenerateStep(req[s].route)
                /\ req'[s].userProfile = req[s].userProfile
                /\ user_profiles' = user_profiles
          /\ (Running(s) /\ req[s].extractions = <<FALSE>> /\ req[s].route = "chat") =>
                /\ req'[s].pc \notin {"upd_read", "upd_write", "upd_score"}
                /\ user_profiles' = user_profiles
                /\ req'[s].pc = "done" =>
                      /\ req'[s].status = 200
                      /\ req'[s].body.extracted_info = EmptyObject]_vars

\* A /chat request whose extraction call failed has been answered with the success
\* response, and its profile is stored as it was created.
C11_Witness ==
    \E s \in Slots :
        /\ req[s].pc = "done"
        /\ req[s].route = "chat"
        /\ req[s].extractions = <<FALSE>>
        /\ req[s].status = 200
        /\ Len(user_profiles) = 1
        /\ user_profiles[1] = NewRow(1, req[s].mobile_number, 1)

\* A call of the response-generation collaborator has failed for the request in slot s.
GenerationFailed(s) == FALSE \in Range(req[s].generations)

\* C12: when a response-generation call of a request (/chat or /chat/enhanced) has
\* failed, the response step yields the fixed apology and no suggestions, and the
\* request ends with the success response that carries the apology.
C12_GenerationFailureApology ==
    \A s \in Slots :
        GenerationFailed(s) =>
           /\ req[s].pc \in {"logConversation", "getAnalytics"} =>
                 /\ req[s].aiResponse.content = ApologyMessage
                 /\ req[s].aiResponse.suggestions = <<>>
           /\ req[s].pc = "done" =>
                 /\ req[s].status = 200
                 /\ req[s].body.response = ApologyMessage

\* C13: a chat request (/chat or /chat/enhanced) without mobile_number or without
\* message (missing or empty) is answered with status 400 in the step that receives
\* it: the handler is over before its first collaborator call, and neither table
\* changes.
C13_InvalidRequestRejected ==
    [][\A s \in Slots :
          (/\ req'[s] # req[s]
           /\ \/ ~Truthy(req'[s].mobile_number)
              \/ ~Truthy(req'[s].message)) =>
             /\ req[s].pc \in {"idle", "done"}
             /\ req'[s].pc = "done"
             /\ req'[s].status = 400
             /\ req'[s].sent = 1
             /\ req'[s].extractions = <<>>
             /\ req'[s].generations = <<>>
             /\ req'[s].logged = "no"
             /\ user_profiles' = user_profiles
             /\ conversation_logs' = conversation_logs]_vars

\* A /chat/enhanced request with a message and an empty mobile_number has been rejected.
C13_Witness ==
    \E s \in Slots :
        /\ req[s].pc = "done"
        /\ req[s].route = "enhanced"
        /\ req[s].mobile_number = Str(<<>>)
        /\ Truthy(req[s].message)
        /\ req[s].status = 400
        /\ user_profiles = <<>>

\* The pipeline step a handler position belongs to: 1 resolve-profile, 2 extract,
\* 3 merge, 4 generate-response, 5 log, 6 return.
PipelineStep(pc) ==
    CASE pc = "idle" -> 0
      [] pc \in {"getUserProfile", "createUserProfile"} -> 1
      [] pc = "extractProfileInfo" -> 2
      [] pc \in {"upd_read", "upd_write", "upd_score"} -> 3
      [] pc \in {"generateEnhancedResponse", "generateResponse"} -> 4
      [] pc = "logConversation" -> 5
      [] OTHER -> 6

\* The order of the positions inside the steps.
Position(pc) ==
    CASE pc = "idle" -> 0
      [] pc = "getUserProfile" -> 1
      [] pc = "createUserProfile" -> 2
      [] pc = "extractProfileInfo" -> 3
      [] pc = "upd_read" -> 4
      [] pc = "upd_write" -> 5
      [] pc = "upd_score" -> 6
      [] pc = "generateEnhancedResponse" -> 7
      [] pc = "generateResponse" -> 8
      [] pc = "logConversation" -> 9
      [] pc = "getAnalytics" -> 10
      [] OTHER -> 11

\* C14: every chat request (/chat or /chat/enhanced) reaches its terminal state exactly
\* once. A handler never goes back to an earlier pipeline step or position (inside the
\* merge, to an earlier array field); it has sent no response while it runs and exactly
\* one when it is done; and, every collaborator call returning or failing in the end,
\* a running handler gets done.
C14_TerminalStateOnce ==
    /\ [][\A s \in Slots :
             (Running(s) /\ req'[s] # req[s]) =>
                /\ PipelineStep(req'[s].pc) >= PipelineStep(req[s].pc)
                /\ \/ Position(req'[s].pc) > Position(req[s].pc)
                   \/ /\ req[s].pc = "upd_read"
                      /\ req'[s].pc = "upd_read"
                      /\ req'[s].field > req[s].field]_vars
    /\ [](\A s \in Slots :
             /\ Running(s) => (req[s].sent = 0 /\ req[s].status = 0)
             /\ req[s].pc = "done" => (req[s].sent = 1 /\ req[s].status \in {200, 400, 500}))
    /\ \A s \in Slots : Running(s) ~> (req[s].pc = "done")

\* A /chat/enhanced request has run through extraction, merge, response generation,
\* logging and the analytics preview and has sent its one response.
C14_Witness ==
    \E s \in Slots :
        /\ req[s].pc = "done"
        /\ req[s].route = "enhanced"
        /\ req[s].sent = 1
        /\ req[s].status = 200
        /\ req[s].logged = "ok"
        /\ req[s].generations = <<TRUE>>
        /\ Keys(req[s].body.extracted_info) # {}

\* C15: a chat request that carries both parameters ends with an error response only
\* by a failed storage call of profile resolution (lookup or creation).
C15_ErrorOnlyFromProfileResolution ==
    [][\A s \in Slots :
          (Running(s) /\ req'[s].pc = "done" /\ req'[s].status # 200) =>
             req[s].pc \in {"getUserProfile", "createUserProfile"}]_vars

\* C16: when the profile lookup of a chat request fails with a storage error for a
\* mobile_number that has a profile, the request ends with the service error and
\* createUserProfile is not invoked; a handler is about to create a profile only when
\* none is stored for its mobile_number.
C16_CreateOnlyWhenAbsent ==
    [][\A s \in Slots :
          /\ (/\ req[s].pc = "getUserProfile"
              /\ req'[s].pc # "getUserProfile"
              /\ faults' = faults + 1
              /\ RowsOf(req[s].mobile_number) # {}) =>
                (req'[s].pc = "done" /\ req'[s].status = 500)
          /\ (req[s].pc # "createUserProfile" /\ req'[s].pc = "createUserProfile") =>
                RowsOf(req[s].mobile_number) = {}]_vars

\* The rows of conversation_logs of a user written in the last `days` days.
InWindow(user_id, days) ==
    {i \in 1..Len(conversation_logs) :
        /\ conversation_logs[i]["user_id"] = user_id
        /\ conversation_logs[i]["created_at"].v[1] >= clock - days}

\* The sum of response_time_ms over a set of rows, a row without one counting 0.
RECURSIVE TotalResponseTime(_)
TotalResponseTime(rows) ==
    IF rows = {} THEN 0
    ELSE LET i == CHOOSE j \in rows : TRUE
             t == conversation_logs[i]["response_time_ms"]
         IN  (IF t.k = "num" THEN t.v[1] ELSE 0) + TotalResponseTime(rows \ {i})

\* C17: getAnalytics never raises and never yields NaN. Its result is the zero result
\* when the query fails and when no row of the user falls in the window (also with a
\* days value that is no number); otherwise total_conversations is the number of rows
\* in the window and avg_response_time_ms the rounded arithmetic mean of their
\* response_time_ms.
C17_AnalyticsTotal ==
    [][(req[1].pc = "an_getAnalytics" /\ req'[1].pc # "an_getAnalytics") =>
          LET result == req'[1].analytics
              days == DaysOf(req[1].days)
              rows == IF days = NaN THEN {}
                      ELSE InWindow(req[1].userProfile["user_id"], days.v[1])
              n == Cardinality(rows)
              sum == TotalResponseTime(rows)
          IN  /\ req'[1].pc = "getUserByUserId"
              /\ result.total_conversations \in Nat
              /\ result.avg_response_time_ms \in Nat
              /\ (faults' # faults \/ rows = {}) => result = ZeroAnalytics
              /\ (faults' = faults /\ rows # {}) =>
                    /\ result.total_conversations = n
                    /\ 2 * n * result.avg_response_time_ms <= 2 * sum + n
                    /\ 2 * sum + n < 2 * n * (result.avg_response_time_ms + 1)
                    /\ Len(result.recent_activity) = n]_vars

\* C18: getUserActivitySummary never raises. When its lookups (getUserByUserId, then
\* getUserProfile) do not yield the profile it returns null; otherwise it returns the
\* summary whose profile_completion is calculateProfileCompletion of the stored
\* profile and whose conversation_count is the total of getAnalytics(user_id, 30).
C18_ActivitySummary ==
    [][(req[1].pc = "sum_getAnalytics" /\ req'[1].pc # "sum_getAnalytics") =>
          LET summary == req'[1].body.activity_summary
              user_id == req[1].userProfile["user_id"]
              profile == req[1].data
          IN  /\ req'[1].pc = "done"
              /\ req'[1].status = 200
              /\ profile = Null => summary = Null
              /\ profile # Null =>
                    /\ profile = user_profiles[user_id.v[1]]
                    /\ summary.profile_completion
                          = calculateProfileCompletion(user_profiles[user_id.v[1]])
                    /\ summary.conversation_count
                          = getAnalytics(conversation_logs, user_id, Num(30), clock,
                                         faults' = faults).total_conversations
                    /\ summary.conversation_count
                          = IF faults' = faults
                            THEN Cardinality(InWindow(user_id, 30)) ELSE 0]_vars

\* The route has answered with the summary null: a lookup of getUserActivitySummary
\* failed for a user whose profile is stored.
C18_Witness ==
    /\ req[1].pc = "done"
    /\ req[1].route = "analytics"
    /\ req[1].status = 200
    /\ req[1].body.activity_summary = Null
    /\ req[1].body.profile_completion = 23
    /\ faults = 1

\* C19: an extraction answer that parses as JSON but is no mapping of recognized fields
\* (here null, the array ["a"], an object with the key favorite_color) is taken as an
\* empty or filtered extraction: the handler hands updateProfile recognized fields only,
\* no stored profile has an attribute under an unrecognized key, and the /chat request
\* ends with the success response.
C19_MalformedExtractionFiltered ==
    [][\A s \in Slots :
          /\ (req[s].pc = "extractProfileInfo" /\ req'[s].pc # "extractProfileInfo") =>
                Keys(req'[s].updateData) \subseteq RecognizedFields \cup SystemColumns
          /\ \A u \in 1..Len(user_profiles') : \A key \in UnrecognizedKeys :
                user_profiles'[u][key] = Undefined
          /\ (/\ Running(s)
              /\ req[s].pc \notin {"getUserProfile", "createUserProfile"}
              /\ req[s].route = "chat"
              /\ req'[s].pc = "done"
              /\ Keys(req[s].extractedInfo) \ RecognizedFields # {}) =>
                req'[s].status = 200]_vars

\* C20: within one chat request (/chat or /chat/enhanced) the text-generation
\* collaborator is called at most once for extraction and at most once for response
\* generation, also when the first call fails.
C20_NoCollaboratorRetry ==
    \A s \in Slots :
        /\ Len(req[s].extractions) <= 1
        /\ Len(req[s].generations) <= 1

\* C21: a handler whose awaited collaborator call never settles is cut off and still
\* sends its response: a hung handler gets done.
C21_HungCallIsCutOff ==
    \A s \in Slots : req[s].hung ~> (req[s].pc = "done")

\* C22: the profile_updates list of the log entry written for a request names exactly
\* the profile fields whose stored value the request's merge changed (none when no
\* merge ran).
C22_ProfileUpdatesAreChanges ==
    [][\A s \in Slots :
          (req[s].pc = "logConversation" /\ req'[s].logged = "ok") =>
             conversation_logs'[Len(conversation_logs')]["profile_updates"]
                = req[s].changed]_vars

\* C23: at most one profile is stored per mobile number, also when two first messages
\* of the same unseen number overlap.
C23_OneProfilePerIdentifier ==
    \A u \in Users, v \in Users :
        user_profiles[u]["mobile_number"] = user_profiles[v]["mobile_number"] => u = v

\* C24: no step of a chat request changes the mobile_number, user_id or created_at of
\* a stored profile, whatever the extraction result contains.
C24_IdentityFixed ==
    [][\A u \in Users : \A c \in {"mobile_number", "user_id", "created_at"} :
          user_profiles'[u][c] = user_profiles[u][c]]_vars

\* C25: a /chat/enhanced request that has been merged and logged ends with the success
\* response: computing the insights and the tips raises no error.
C25_EnhancedEndsWithSuccess ==
    [][\A s \in Slots :
          Moves(s, "getAnalytics", "done") => req'[s].status = 200]_vars

====
